---- MODULE Spec2Model ----
(***************************************************************************)
(* YourGPTProvider (src/src/react/components/YourGPTProvider.tsx): the     *)
(* React provider that initializes the widget SDK in an effect, mirrors    *)
(* the widget's stateChange events into React state and releases the       *)
(* subscription in the effect's cleanup.                                   *)
(*                                                                         *)
(* One provider element is followed through its life: server renders       *)
(* (effects never run), or in a browser mount, the re-render that follows  *)
(* setIsBrowser(true), prop changes by the host, settlement of pending     *)
(* YourGPT.init promises, widget events, unmount and a later remount.      *)
(***************************************************************************)
EXTENDS Integers, Sequences, FiniteSets, TLC

\* ---------------------------------------------------------------- bounds
MaxInits == 2       \* YourGPT.init calls followed in one run
MaxMounts == 2      \* provider instances (mount, unmount, mount again)
MaxRenders == 2     \* server-side renders followed in one run
MaxInvocations == 2 \* invocations of the guide's create_todo handler

\* ---------------------------------------------------------------- values
Handles == {1, 2}                \* SDK handles YourGPT.init may resolve with
NoSdk == 0                       \* the null of useState<YourGPTSDK | null>
Configs == {"cfgA", "cfgB"}      \* configuration references given by the host
Ids == 1..MaxInits               \* one id per YourGPT.init call; the listener
                                 \* registered by that call's continuation
                                 \* carries the same id
NoListener == 0

\* useState<WidgetState>({...}) default snapshot
DefaultState ==
  [isOpen |-> FALSE, isVisible |-> TRUE, isConnected |-> FALSE,
   isLoaded |-> FALSE, messageCount |-> 0, connectionRetries |-> 0]

\* snapshots the widget may emit
Snapshots ==
  { DefaultState,
    [DefaultState EXCEPT !.isConnected = TRUE, !.isLoaded = TRUE,
                         !.isOpen = TRUE, !.messageCount = 1] }

\* values a rejected promise or a throwing callback may raise
NoError == [k |-> "null", m |-> ""]
Thrown ==
  { [k |-> "YourGPTError", m |-> "init failed"],
    [k |-> "Error", m |-> "boom"] }

\* what a throwing onInitialized callback raises
CallbackThrown == { [k |-> "Error", m |-> "boom"] }

\* String(err) of JavaScript
StringOf(err) ==
  IF err.k = "string" THEN err.m ELSE err.k \o ": " \o err.m

NormalizeError_Raw(err) == err

\* sdkError of the catch block:
\* err instanceof YourGPTError ? err : new YourGPTError(String(err))
NormalizeError(err) ==
  IF err.k = "YourGPTError" THEN err
  ELSE [k |-> "YourGPTError", m |-> StringOf(err)]

VARIABLES
  env,            \* "browser" | "server": whether effects ever run
  renders,        \* server renders so far
  scope,          \* "none" | "mounted" | "unmounted"
  inst,           \* number of the current provider instance
  config, onError, onInitialized,     \* props of the latest render
  isBrowser, sdk, isInitialized, isLoading, error, state,   \* useState cells
  cleanupSdk,     \* the sdk value closed over by the latest effect's cleanup
  calls,          \* every YourGPT.init call made so far, by id
  listeners,      \* handle -> ids of the stateChange listeners registered
  unsubField,     \* handle -> the listener whose unsubscribe is stored in
                  \*           _unsubscribeStateChange (0: none)
  unsubCalls,     \* listener id -> calls of its unsubscribe function
  wstate,         \* handle -> the widget's current state snapshot
  \* the host application of the AI actions guide
  registry,       \* action name -> registered handler ("none": none)
  todoApp,        \* "none" | "mounted" | "unmounted": the TodoApp component
  todoActions,    \* the keys of the host's todoActions object
  inv,            \* the current invocation of the create_todo handler
  invocations,    \* invocations so far
  todos           \* calls of handleCreateTodo so far

react == <<isBrowser, sdk, isInitialized, isLoading, error, state>>
props == <<config, onError, onInitialized>>
widget == <<listeners, unsubField, unsubCalls, wstate>>
provider == <<env, renders, scope, inst, config, onError, onInitialized,
              isBrowser, sdk, isInitialized, isLoading, error, state,
              cleanupSdk, calls, listeners, unsubField, unsubCalls, wstate>>
guide == <<registry, todoApp, todoActions, inv, invocations, todos>>
vars == <<provider, guide>>

\* ------------------------------------------------------ AI actions guide
\* (src/examples/next-playground/AI_ACTIONS_GUIDE.md)

ActionKeys == {"createTodo", "updateTodoStatus"}   \* keys of todoActions
ActionNames == ActionKeys \cup {"create_todo"}
NoHandler == "none"
HandlerOf(name) == "todoActions." \o name
CreateTodoHandler == "create_todo handler"
EmptyRegistry == [n \in ActionNames |-> NoHandler]

\* aiActions.registerAction(name, handler)
RegisterAction(reg, name, handler) == [reg EXCEPT ![name] = handler]

\* aiActions.unregisterAction(name)
UnregisterAction(reg, name) == [reg EXCEPT ![name] = NoHandler]

\* Object.entries(todoActions).forEach(([name, handler]) =>
\*   aiActions.registerAction(name, handler))
RECURSIVE RegisterAll(_, _)
RegisterAll(reg, names) ==
  IF names = {} THEN reg
  ELSE LET n == CHOOSE x \in names : TRUE IN
       RegisterAll(RegisterAction(reg, n, HandlerOf(n)), names \ {n})

\* names.forEach(actionName => aiActions.unregisterAction(actionName))
RECURSIVE UnregisterAll(_, _)
UnregisterAll(reg, names) ==
  IF names = {} THEN reg
  ELSE LET n == CHOOSE x \in names : TRUE IN
       UnregisterAll(UnregisterAction(reg, n), names \ {n})

CleanupKeys_SkipsCreate == todoActions \ {"createTodo"}

\* the names the effect cleanup unregisters: Object.keys(todoActions)
CleanupKeys == todoActions

\* the function-call arguments the AI hands to the handler: a JSON text that
\* may not parse, and whose object may lack the title; a title is a
\* sequence of characters
NoArgs == [parses |-> TRUE, hasTitle |-> FALSE, title |-> <<>>]
ArgPayloads ==
  { NoArgs,
    [parses |-> FALSE, hasTitle |-> FALSE, title |-> <<>>],
    [parses |-> TRUE, hasTitle |-> TRUE, title |-> <<>>],
    [parses |-> TRUE, hasTitle |-> TRUE, title |-> <<" ", " ">>],
    [parses |-> TRUE, hasTitle |-> TRUE, title |-> <<"B", "u", "y">>],
    [parses |-> TRUE, hasTitle |-> TRUE, title |-> <<" ", "B", " ">>] }

\* String.prototype.trim()
RECURSIVE TrimLeft(_)
TrimLeft(t) == IF t # <<>> /\ Head(t) = " " THEN TrimLeft(Tail(t)) ELSE t
RECURSIVE TrimRight(_)
TrimRight(t) ==
  IF t # <<>> /\ t[Len(t)] = " " THEN TrimRight(SubSeq(t, 1, Len(t) - 1))
  ELSE t
Trim(t) == TrimRight(TrimLeft(t))

TitleMissing_NoTrim(p) == ~p.hasTitle \/ p.title = <<>>

\* "!args.title?.trim()"
TitleMissing(p) == ~p.hasTitle \/ Trim(p.title) = <<>>

TitleRequired == "Todo title is required"
CreatedMessage == "Todo created successfully"

IdleInv ==
  [pc |-> "idle", payload |-> NoArgs, asked |-> FALSE, confirmed |-> "",
   created |-> FALSE, responses |-> <<>>]

\* no TodoApp rendered, nothing registered, no handler invoked
GuideIdle ==
  /\ registry = EmptyRegistry
  /\ todoApp = "none"
  /\ inv = IdleInv
  /\ invocations = 0
  /\ todos = 0

Init ==
  /\ env \in {"browser", "server"}
  /\ renders = 0
  /\ scope = "none"
  /\ inst = 0
  /\ config \in Configs
  /\ onError \in BOOLEAN
  /\ onInitialized \in BOOLEAN
  /\ isBrowser = FALSE
  /\ sdk = NoSdk
  /\ isInitialized = FALSE
  /\ isLoading = FALSE
  /\ error = NoError
  /\ state = DefaultState
  /\ cleanupSdk = NoSdk
  /\ calls = <<>>
  /\ listeners = [h \in Handles |-> {}]
  /\ unsubField = [h \in Handles |-> NoListener]
  /\ unsubCalls = [i \in Ids |-> 0]
  /\ wstate = [h \in Handles |-> DefaultState]
  /\ GuideIdle
  /\ todoActions = ActionKeys

\* ------------------------------------------------------- code fragments

NewCall_StaleConfig(c, e, i) ==
  [inst |-> inst, cfg |-> config, onError |-> e, onInitialized |-> i,
   status |-> "pending", handle |-> NoSdk, live |-> FALSE,
   initCb |-> 0, errArgs |-> <<>>]

\* the record of a YourGPT.init(config) call just made by the effect of the
\* current instance; its closure holds the props of that render
NewCall(c, e, i) ==
  [inst |-> inst, cfg |-> c, onError |-> e, onInitialized |-> i,
   status |-> "pending", handle |-> NoSdk, live |-> FALSE,
   initCb |-> 0, errArgs |-> <<>>]

\* the setters of an unmounted (or replaced) provider instance do nothing
Live(id) == scope = "mounted" /\ calls[id].inst = inst

EffectGuard_None(b) == TRUE

\* "if (!isBrowser) return;"
EffectGuard(b) == b

DepsChanged_Always(c) == TRUE

\* the dependency array [config, onError, onInitialized, isBrowser] when the
\* host renders the mounted provider with config reference c: the effect
\* re-runs only if a dependency differs from the previous render's
DepsChanged(c) == c # config

FinallyLoading_Skipped(cur) == cur

\* "finally { setIsLoading(false) }"
FinallyLoading(cur) == FALSE

ErrorAtStart_Kept(cur) == cur

\* "setError(null)" at the start of initializeSDK
ErrorAtStart(cur) == NoError

InitializedOnSuccess_Missing(cur) == cur

\* "setIsInitialized(true)"
InitializedOnSuccess(cur) == TRUE

\* the unsubscribe function the effect's cleanup calls, given the sdk value
\* its closure holds: "if (sdk) { if (sdk._unsubscribeStateChange) ...() }"
CleanupListener(c) ==
  IF c # NoSdk /\ unsubField[c] # NoListener THEN unsubField[c] ELSE NoListener

\* the cleanup returned by the effect, run before the effect runs again and
\* on unmount
Cleanup ==
  LET l == CleanupListener(cleanupSdk) IN
  IF l = NoListener
    THEN UNCHANGED <<listeners, unsubCalls>>
    ELSE /\ listeners' = [h \in Handles |-> listeners[h] \ {l}]
         /\ unsubCalls' = [unsubCalls EXCEPT ![l] = @ + 1]

\* the sdk value the effect's closure holds: that of the render it belongs to
ClosureSdk(rendered) == rendered

\* the init effect's body, run for a render with isBrowser = b, props c, e, i
\* and sdk = s; loading0 and error0 are the cells' values before it
EffectBody(b, c, e, i, s, loading0, error0) ==
  IF EffectGuard(b)
    THEN /\ Len(calls) < MaxInits
         /\ isLoading' = TRUE                      \* setIsLoading(true)
         /\ error' = ErrorAtStart(error0)          \* setError(null)
         /\ calls' = Append(calls, NewCall(c, e, i))   \* YourGPT.init(config)
         /\ cleanupSdk' = ClosureSdk(s)
    ELSE /\ isLoading' = loading0
         /\ error' = error0
         /\ calls' = calls
         /\ cleanupSdk' = NoSdk                    \* no cleanup returned

Listener_Merge(cur, newState) ==
  [newState EXCEPT !.messageCount =
     IF cur.messageCount > @ THEN cur.messageCount ELSE @,
                   !.isOpen = cur.isOpen \/ @]

\* the stateChange listener: "(newState) => { setState(newState) }"
Listener(cur, newState) == newState

\* the listeners a stateChange event of handle h invokes
Invoked(h) == listeners[h]

\* ---------------------------------------------------------------- actions

\* a render outside the browser: the component function runs, no effect does
ServerRender ==
  /\ env = "server"
  /\ renders < MaxRenders
  /\ renders' = renders + 1
  /\ config' \in Configs
  /\ UNCHANGED <<env, scope, inst, onError, onInitialized, react, cleanupSdk,
                 calls, widget>>

\* first commit of a provider instance in the browser: fresh useState cells,
\* then both effects run for the render with isBrowser = false
Mount ==
  /\ env = "browser"
  /\ scope # "mounted"
  /\ inst < MaxMounts
  /\ Len(calls) < MaxInits
  /\ scope' = "mounted"
  /\ inst' = inst + 1
  /\ config' \in Configs
  /\ UNCHANGED <<onError, onInitialized>>
  /\ isBrowser' = FALSE          \* setIsBrowser(true) is queued
  /\ sdk' = NoSdk
  /\ isInitialized' = FALSE
  /\ state' = DefaultState
  /\ LET NewInst == inst + 1 IN
     IF EffectGuard(FALSE)
       THEN /\ isLoading' = TRUE
            /\ error' = NoError
            /\ calls' = Append(calls, [NewCall(config', onError, onInitialized)
                                         EXCEPT !.inst = NewInst])
       ELSE /\ isLoading' = FALSE
            /\ error' = NoError
            /\ calls' = calls
  /\ cleanupSdk' = NoSdk
  /\ UNCHANGED <<env, renders, widget>>

\* the re-render caused by setIsBrowser(true): isBrowser is a dependency, so
\* the previous cleanup (if any) runs and the effect runs again
BrowserRerender ==
  /\ scope = "mounted"
  /\ ~isBrowser
  /\ isBrowser' = TRUE
  /\ Cleanup
  /\ EffectBody(TRUE, config, onError, onInitialized, sdk, isLoading, error)
  /\ UNCHANGED <<env, renders, scope, inst, props, sdk, isInitialized, state,
                 unsubField, wstate>>

\* the host renders the provider with another config reference: a dependency
\* changed, so cleanup and effect run again. The host keeps its callbacks for
\* the whole run; a new callback reference would re-run the effect in the
\* same way.
ChangeConfig(c) ==
  /\ scope = "mounted"
  /\ isBrowser
  /\ DepsChanged(c)
  /\ config' = c
  /\ Cleanup
  /\ EffectBody(isBrowser, c, onError, onInitialized, sdk, isLoading, error)
  /\ UNCHANGED <<env, renders, scope, inst, onError, onInitialized, isBrowser,
                 sdk, isInitialized, state, unsubField, wstate>>

\* the provider is removed from the tree: the latest effect's cleanup runs
Unmount ==
  /\ scope = "mounted"
  /\ scope' = "unmounted"
  /\ Cleanup
  /\ UNCHANGED <<env, renders, inst, props, react, cleanupSdk, calls,
                 unsubField, wstate>>

\* YourGPT.init of call id resolves with handle h; the rest of the try block
\* and the finally run. out is what onInitialized does: NoError when it
\* returns, otherwise the value it throws.
InitResolve(id, h, out) ==
  /\ id \in 1..Len(calls)
  /\ calls[id].status = "pending"
  /\ out # NoError => calls[id].onInitialized
  /\ LET live == Live(id)
         threw == out # NoError
         sdkError == NormalizeError(out)
     IN
     /\ listeners' = [listeners EXCEPT ![h] = @ \cup {id}]       \* sdk.on(...)
     /\ unsubField' = [unsubField EXCEPT ![h] = id]
     /\ IF live
          THEN /\ sdk' = h                                  \* setSdk
               /\ isInitialized' = InitializedOnSuccess(isInitialized)
               /\ state' = wstate[h]                        \* getState()
               /\ error' = IF threw THEN sdkError ELSE error
               /\ isLoading' = FinallyLoading(isLoading)    \* finally
          ELSE UNCHANGED <<sdk, isInitialized, state, error, isLoading>>
     /\ calls' = [calls EXCEPT ![id] =
          [@ EXCEPT !.status = "resolved", !.handle = h, !.live = live,
                    !.initCb = IF calls[id].onInitialized THEN 1 ELSE 0,
                    !.errArgs = IF threw /\ calls[id].onError
                                  THEN <<sdkError>> ELSE <<>>]]
  /\ UNCHANGED <<env, renders, scope, inst, props, isBrowser, cleanupSdk,
                 unsubCalls, wstate>>

InitReject_Resets(id, err) ==
  /\ id \in 1..Len(calls)
  /\ calls[id].status = "pending"
  /\ LET live == Live(id)
         sdkError == NormalizeError(err)
     IN
     /\ IF live
          THEN /\ error' = sdkError
               /\ isLoading' = FinallyLoading(isLoading)
               /\ sdk' = NoSdk
               /\ isInitialized' = FALSE
          ELSE UNCHANGED <<error, isLoading, sdk, isInitialized>>
     /\ calls' = [calls EXCEPT ![id] =
          [@ EXCEPT !.status = "rejected", !.live = live,
                    !.errArgs = IF calls[id].onError
                                  THEN <<sdkError>> ELSE <<>>]]
  /\ UNCHANGED <<env, renders, scope, inst, props, isBrowser,
                 state, cleanupSdk, widget>>

\* YourGPT.init of call id rejects with err: catch and finally run
InitReject(id, err) ==
  /\ id \in 1..Len(calls)
  /\ calls[id].status = "pending"
  /\ LET live == Live(id)
         sdkError == NormalizeError(err)
     IN
     /\ IF live
          THEN /\ error' = sdkError                         \* setError
               /\ isLoading' = FinallyLoading(isLoading)    \* finally
          ELSE UNCHANGED <<error, isLoading>>
     /\ calls' = [calls EXCEPT ![id] =
          [@ EXCEPT !.status = "rejected", !.live = live,
                    !.errArgs = IF calls[id].onError
                                  THEN <<sdkError>> ELSE <<>>]]
  /\ UNCHANGED <<env, renders, scope, inst, props, isBrowser, sdk,
                 isInitialized, state, cleanupSdk, widget>>

\* the widget behind handle h changes state to s and emits stateChange to
\* the listeners registered on h
Emit(h, s) ==
  /\ \E id \in 1..Len(calls) : calls[id].handle = h
  /\ s # wstate[h]
  /\ wstate' = [wstate EXCEPT ![h] = s]
  /\ state' = IF \E l \in Invoked(h) : Live(l)
                THEN Listener(state, s) ELSE state
  /\ UNCHANGED <<env, renders, scope, inst, props, isBrowser, sdk,
                 isInitialized, isLoading, error, cleanupSdk, calls,
                 listeners, unsubField, unsubCalls>>

Next ==
  \/ ServerRender /\ UNCHANGED guide
  \/ Mount /\ UNCHANGED guide
  \/ BrowserRerender /\ UNCHANGED guide
  \/ \E c \in Configs : ChangeConfig(c) /\ UNCHANGED guide
  \/ Unmount /\ UNCHANGED guide
  \/ \E id \in Ids, h \in Handles, out \in CallbackThrown \cup {NoError} :
       InitResolve(id, h, out) /\ UNCHANGED guide
  \/ \E id \in Ids, err \in Thrown : InitReject(id, err) /\ UNCHANGED guide
  \/ \E h \in Handles, s \in Snapshots : Emit(h, s) /\ UNCHANGED guide

Spec == Init /\ [][Next]_vars

\* ------------------------------------------------ AI actions guide: steps

\* TodoApp mounts: its effect registers every entry of todoActions
TodoAppMount ==
  /\ todoApp # "mounted"
  /\ todoApp' = "mounted"
  /\ registry' = RegisterAll(registry, todoActions)
  /\ UNCHANGED <<todoActions, inv, invocations, todos>>

\* TodoApp unmounts: the effect's cleanup unregisters the actions
TodoAppUnmount ==
  /\ todoApp = "mounted"
  /\ todoApp' = "unmounted"
  /\ registry' = UnregisterAll(registry, CleanupKeys)
  /\ UNCHANGED <<todoActions, inv, invocations, todos>>

\* the effect of the core architecture sketch registers the create_todo
\* handler; it has no cleanup and runs again when todos or aiActions change
RegisterCreateTodo ==
  /\ registry' = RegisterAction(registry, "create_todo", CreateTodoHandler)
  /\ UNCHANGED <<todoApp, todoActions, inv, invocations, todos>>

\* the widget calls the registered create_todo handler with arguments p; the
\* handler runs up to its first await, or to its end
InvokeCreateTodo(p) ==
  /\ registry["create_todo"] = CreateTodoHandler
  /\ inv.pc \in {"idle", "done"}
  /\ invocations < MaxInvocations
  /\ invocations' = invocations + 1
  /\ inv' =
       IF ~p.parses
         THEN [IdleInv EXCEPT !.pc = "done", !.payload = p]  \* JSON.parse throws
       ELSE IF TitleMissing(p)
         THEN [IdleInv EXCEPT !.pc = "done", !.payload = p,
                              !.responses = <<TitleRequired>>]
       ELSE [IdleInv EXCEPT !.pc = "confirming", !.payload = p,
                            !.asked = TRUE]               \* helpers.confirm
  /\ UNCHANGED <<registry, todoApp, todoActions, todos>>

\* helpers.confirm resolves with b; the handler runs to its end
ConfirmSettles(b) ==
  /\ inv.pc = "confirming"
  /\ IF b
       THEN /\ todos' = todos + 1                         \* handleCreateTodo
            /\ inv' = [inv EXCEPT !.pc = "done", !.confirmed = "yes",
                                  !.created = TRUE,
                                  !.responses = Append(@, CreatedMessage)]
       ELSE /\ todos' = todos
            /\ inv' = [inv EXCEPT !.pc = "done", !.confirmed = "no"]
  /\ UNCHANGED <<registry, todoApp, todoActions, invocations>>

\* the host application alone, beside an idle provider
GuideInit ==
  /\ env = "browser" /\ renders = 0 /\ scope = "none" /\ inst = 0
  /\ config = "cfgA" /\ onError = FALSE /\ onInitialized = FALSE
  /\ isBrowser = FALSE /\ sdk = NoSdk /\ isInitialized = FALSE
  /\ isLoading = FALSE /\ error = NoError /\ state = DefaultState
  /\ cleanupSdk = NoSdk /\ calls = <<>>
  /\ listeners = [h \in Handles |-> {}]
  /\ unsubField = [h \in Handles |-> NoListener]
  /\ unsubCalls = [i \in Ids |-> 0]
  /\ wstate = [h \in Handles |-> DefaultState]
  /\ GuideIdle
  /\ todoActions \in (SUBSET ActionKeys) \ {{}}

GuideNext ==
  \/ TodoAppMount /\ UNCHANGED provider
  \/ TodoAppUnmount /\ UNCHANGED provider
  \/ RegisterCreateTodo /\ UNCHANGED provider
  \/ \E p \in ArgPayloads : InvokeCreateTodo(p) /\ UNCHANGED provider
  \/ \E b \in BOOLEAN : ConfirmSettles(b) /\ UNCHANGED provider

GuideSpec == GuideInit /\ [][GuideNext]_vars

\* ----------------------------------------------------------------- claims

CallIds == 1..Len(calls)

\* the listeners registered by the provider that are active on the widget
ActiveListeners == UNION {listeners[h] : h \in Handles}

\* call id resolved and subscribed its listener while its provider was mounted
SubscribedLive(id) == calls[id].status = "resolved" /\ calls[id].live

\* C1: once the provider is unmounted after a successful subscription, the
\* unsubscribe function returned by sdk.on("stateChange", ...) has been called
\* exactly once.
C1_UnmountUnsubscribesOnce ==
  scope = "unmounted" =>
    \A id \in CallIds :
      (calls[id].inst = inst /\ SubscribedLive(id)) => unsubCalls[id] = 1

\* C2: after the provider has been unmounted following a successful
\* subscription, no stateChange event invokes the provider's listener.
C2_NoListenerCallAfterUnmount ==
  [][\A h \in Handles :
       wstate'[h] # wstate[h] =>
         \A l \in Invoked(h) : ~(SubscribedLive(l) /\ ~Live(l))]_vars

\* C3: an initialization that resolves after its provider unmounted attaches
\* no stateChange listener.
C3_NoListenerAfterPendingUnmount ==
  \A id \in CallIds :
    (calls[id].status = "resolved" /\ ~calls[id].live) =>
      id \notin ActiveListeners

\* C4: at most one stateChange listener registered by the provider is active.
C4_AtMostOneListener == Cardinality(ActiveListeners) <= 1

\* C5: a successful initialization takes isLoading from true to false,
\* isInitialized from false to true and leaves error null when it completes.
C5_SuccessTransitions ==
  [][\A id \in CallIds :
       (calls[id].status = "pending" /\ calls'[id].status = "resolved"
          /\ Live(id)) =>
         /\ isLoading /\ ~isLoading'
         /\ ~isInitialized /\ isInitialized'
         /\ error' = NoError]_vars

\* a step in which call id rejects while its provider is mounted
RejectsLive(id) ==
  calls[id].status = "pending" /\ calls'[id].status = "rejected" /\ Live(id)

IsSurfacedFor(raised, e) ==
  /\ e.k = "YourGPTError"
  /\ raised.k = "YourGPTError" => e = raised
  /\ raised.k # "YourGPTError" => e.m = StringOf(raised)

\* C7: an exception raised by the initialization call is surfaced exactly
\* once and never retried: the exposed error is the raised value itself when
\* it is a YourGPTError and otherwise a YourGPTError built from String(err),
\* onError (when supplied) is invoked exactly once with that same value, and
\* no further YourGPT.init call is made while the configuration and callbacks
\* stay the same.
C7_ErrorSurfacedOnceNeverRetried ==
  [][/\ \A id \in CallIds, err \in Thrown :
          InitReject(id, err) =>
            /\ Live(id) => IsSurfacedFor(err, error')
            /\ calls[id].onError =>
                 /\ Len(calls'[id].errArgs) = 1
                 /\ IsSurfacedFor(err, calls'[id].errArgs[1])
                 /\ Live(id) => calls'[id].errArgs[1] = error'
            /\ ~calls[id].onError => calls'[id].errArgs = <<>>
            /\ Len(calls') = Len(calls)
     /\ \A id \in CallIds :
          calls[id].status = "rejected" => calls'[id] = calls[id]
     /\ Len(calls') # Len(calls) =>
          (config' # config \/ isBrowser' # isBrowser \/ inst' # inst)]_vars

\* a rejection with a plain Error, stored as a YourGPTError built from
\* String(err) and handed to onError once
C7_Witness ==
  \E id \in CallIds :
    /\ calls[id].status = "rejected" /\ Live(id)
    /\ error = [k |-> "YourGPTError", m |-> "Error: boom"]
    /\ calls[id].onError /\ calls[id].errArgs = <<error>>

\* C8: a stateChange event delivered to the mounted provider makes the exposed
\* state exactly the emitted snapshot, whatever the state was before.
C8_StateIsEmittedSnapshot ==
  [][\A h \in Handles :
       (wstate'[h] # wstate[h] /\ \E l \in Invoked(h) : Live(l)) =>
         state' = wstate'[h]]_vars

\* an event has been delivered after a successful initialization: the exposed
\* state is the widget's non-default snapshot
C8_Witness ==
  /\ scope = "mounted" /\ isInitialized
  /\ \E l \in Invoked(sdk) : Live(l)
  /\ state = wstate[sdk] /\ state # DefaultState

\* C9: while isBrowser is false (server renders, and the first commit in a
\* browser) the provider has made no YourGPT.init call.
C9_NoInitOutsideBrowser ==
  /\ env = "server" => calls = <<>>
  /\ ~isBrowser => \A id \in CallIds : calls[id].inst # inst

\* the provider has been rendered on the server, several times
C9_Witness == env = "server" /\ renders >= 2 /\ ~isBrowser /\ calls = <<>>

Uninitialized ==
  ~isInitialized /\ ~isLoading /\ error = NoError /\ sdk = NoSdk

C11_ReadyErroredExclusive == ~(isInitialized /\ error # NoError)

\* C12: whenever the configuration reference of the mounted provider changes
\* in a browser, exactly one new YourGPT.init call is made, with the new
\* configuration.
C12_ReinitOnConfigChange ==
  [][(scope = "mounted" /\ isBrowser /\ inst' = inst /\ config' # config) =>
       /\ Len(calls') = Len(calls) + 1
       /\ calls'[Len(calls')].cfg = config'
       /\ calls'[Len(calls')].status = "pending"
       /\ calls'[Len(calls')].inst = inst
       /\ \A id \in CallIds : calls'[id] = calls[id]]_vars

\* the provider re-initialized for a second configuration
C12_Witness ==
  /\ scope = "mounted" /\ isBrowser
  /\ \E a, b \in CallIds :
       /\ a < b /\ calls[a].inst = inst /\ calls[b].inst = inst
       /\ calls[a].cfg # calls[b].cfg /\ calls[b].cfg = config

\* the calls made by the current provider instance
OwnCalls == {id \in CallIds : calls[id].inst = inst}

\* C15: sdk and state change only when a successful initialization completes
\* (sdk := the handle, state := sdk.getState()) or a stateChange event is
\* delivered (state := the snapshot); a new provider instance starts from
\* the initial cells; before the first success of an instance sdk is null and
\* state is the default snapshot.
C15_HandleAndStateFrame ==
  /\ []((\A id \in OwnCalls : ~SubscribedLive(id)) =>
          (sdk = NoSdk /\ state = DefaultState))
  /\ [][(sdk' # sdk \/ state' # state) =>
          \/ inst' # inst /\ sdk' = NoSdk /\ state' = DefaultState
          \/ \E id \in OwnCalls :
               /\ scope = "mounted"
               /\ calls[id].status = "pending"
               /\ calls'[id].status = "resolved"
               /\ sdk' = calls'[id].handle
               /\ state' = wstate[calls'[id].handle]
          \/ /\ sdk' = sdk
             /\ \E h \in Handles :
                  /\ wstate'[h] # wstate[h]
                  /\ Invoked(h) \cap OwnCalls # {}
                  /\ state' = wstate'[h]]_vars

\* a failed initialization left the handle null and the state the default
C15_Witness ==
  /\ scope = "mounted" /\ ~isLoading
  /\ \E id \in OwnCalls : calls[id].status = "rejected" /\ calls[id].live
  /\ sdk = NoSdk /\ state = DefaultState /\ error # NoError

\* C16: every initialization attempt sets isLoading to true and clears error
\* to null in the step that invokes YourGPT.init.
C16_AttemptSetsLoadingClearsError ==
  [][Len(calls') > Len(calls) => (isLoading' /\ error' = NoError)]_vars

\* a new attempt is running after an earlier one failed: the earlier error is
\* no longer exposed
C16_Witness ==
  /\ scope = "mounted" /\ isLoading /\ error = NoError
  /\ \E a, b \in OwnCalls :
       /\ a < b
       /\ calls[a].status = "rejected" /\ calls[a].live
       /\ calls[b].status = "pending"

\* C17: while a YourGPT.init call started by the mounted provider is pending,
\* isLoading is true.
C17_PendingImpliesLoading ==
  (scope = "mounted" /\ \E id \in OwnCalls : calls[id].status = "pending")
    => isLoading

\* C18: when two initializations of the mounted provider have both
\* succeeded, the exposed sdk is the handle produced for the most recent
\* configuration.
C18_LatestConfigWins ==
  scope = "mounted" =>
    \A a, b \in OwnCalls :
      (a < b /\ SubscribedLive(a) /\ SubscribedLive(b)
         /\ \A d \in OwnCalls : d <= b) =>
        sdk = calls[b].handle

\* C19: for one initialization attempt onInitialized and onError are never
\* both invoked: onInitialized only when YourGPT.init succeeded, onError only
\* when it failed.
C19_CallbacksExclusive ==
  \A id \in CallIds :
    /\ ~(calls[id].initCb > 0 /\ Len(calls[id].errArgs) > 0)
    /\ calls[id].initCb > 0 => calls[id].status = "resolved"
    /\ Len(calls[id].errArgs) > 0 => calls[id].status = "rejected"

\* C20: isInitialized is true exactly when sdk is non-null, and within a
\* provider instance neither reverts once set.
C20_InitializedIffSdkMonotone ==
  /\ [](isInitialized <=> sdk # NoSdk)
  /\ [][inst' = inst =>
          /\ isInitialized => isInitialized'
          /\ sdk # NoSdk => sdk' # NoSdk]_vars

\* an initialized provider whose re-initialization failed keeps the handle
C20_Witness ==
  /\ scope = "mounted" /\ isInitialized /\ sdk # NoSdk
  /\ \E a, b \in OwnCalls :
       /\ a < b /\ SubscribedLive(a)
       /\ calls[b].status = "rejected" /\ calls[b].live

\* the names that have a handler registered
Registered == {n \in ActionNames : registry[n] # NoHandler}

\* C13: once every name the TodoApp effect registered has been unregistered
\* by its cleanup, none of them has a handler, and a registry that held
\* nothing else is empty again (for one name: registerAction followed by
\* unregisterAction leaves the registry empty); while TodoApp is mounted
\* exactly its actions are registered under the names of todoActions.
C13_RegisterUnregisterRoundTrip ==
  /\ todoApp # "mounted" => Registered \cap ActionKeys = {}
  /\ (todoApp # "mounted" /\ registry["create_todo"] = NoHandler) =>
       registry = EmptyRegistry
  /\ todoApp = "mounted" =>
       /\ Registered \cap ActionKeys = todoActions
       /\ \A n \in todoActions : registry[n] = HandlerOf(n)

\* a single action was registered in an empty registry and unregistered again
C13_Witness ==
  /\ todoApp = "unmounted" /\ todoActions = {"createTodo"}
  /\ registry = EmptyRegistry

\* the title of the parsed arguments has a character that is not a space
NonBlankTitle(p) ==
  p.parses /\ p.hasTitle /\ \E k \in 1..Len(p.title) : p.title[k] # " "

\* C14: the create_todo handler creates a todo and sends the success response
\* only when the parsed title is non-blank and helpers.confirm resolved true;
\* with a blank or missing title it responds 'title is required' and neither
\* asks for confirmation nor creates a todo; a rejected confirmation creates
\* nothing.
C14_CreateOnlyWhenValidAndConfirmed ==
  /\ todos <= invocations
  /\ (inv.created \/ \E k \in 1..Len(inv.responses) :
                       inv.responses[k] = CreatedMessage) =>
       /\ NonBlankTitle(inv.payload)
       /\ inv.asked /\ inv.confirmed = "yes" /\ inv.created
       /\ inv.responses = <<CreatedMessage>>
  /\ (inv.pc # "idle" /\ inv.payload.parses /\ ~NonBlankTitle(inv.payload)) =>
       /\ inv.responses = <<TitleRequired>>
       /\ ~inv.asked /\ ~inv.created /\ inv.pc = "done"
  /\ inv.asked => NonBlankTitle(inv.payload)
  /\ inv.confirmed = "no" => (~inv.created /\ inv.responses = <<>>)

\* one invocation answered 'title is required' for a title of spaces, and a
\* confirmed one created a todo
C14_Witness ==
  /\ todos = 1 /\ invocations = 2
  /\ inv.pc = "done" /\ inv.payload.title = <<" ", " ">>
  /\ inv.responses = <<TitleRequired>>

====
